---------------------------- MODULE Spec2Model ----------------------------
(***************************************************************************)
(* Model of eth_abi/registry.py: PredicateMapping (a dict from predicates  *)
(* to values plus a dict from labels to predicates), the Predicate value   *)
(* classes, and ABIRegistry with its two lru_cache'd resolution methods.   *)
(*                                                                         *)
(* Python values are modelled as follows.                                  *)
(*  - A predicate object is a record [cls, slots, oid].  Predicate.__eq__  *)
(*    compares cls and slots; the `is` operator compares the whole record  *)
(*    (oid is the object's identity).  oid 0 is used for module-level      *)
(*    functions (one object each) and for the Equals objects that          *)
(*    _register_coder constructs itself, which no caller ever holds.       *)
(*  - A dict keyed by predicates is a set of entries with pairwise         *)
(*    unequal keys; the label dict is a sequence of entries in insertion   *)
(*    order, because _label_for_predicate returns the first hit.           *)
(*  - A raised exception is the `err` field of an operation's outcome.     *)
(***************************************************************************)
EXTENDS Integers, Sequences, FiniteSets, TLC

VARIABLES
    mapping,        \* a PredicateMapping used on its own
    encoders,       \* [Regs -> PredicateMapping]: ABIRegistry._encoders
    decoders,       \* [Regs -> PredicateMapping]: ABIRegistry._decoders
    encoder_cache,  \* the lru_cache of ABIRegistry.get_encoder
    decoder_cache,  \* the lru_cache of ABIRegistry.get_decoder
    hist,           \* per registry and side: results returned since the
                    \* last register*/unregister* call on that registry
    failed,         \* per registry and side: the type strings for which a
                    \* get call has raised
    last,           \* the last call made: its name, arguments and outcome
    calls,          \* the number of calls made on the registries so far
    threads         \* the threads that call the registry concurrently: what
                    \* each is doing, and the caller's lock if there is one

vars == <<mapping, encoders, decoders, encoder_cache, decoder_cache, hist,
          failed, last, calls, threads>>

\* the longest sequence of registry calls explored
MaxCalls == 4

None == "None"

\* the registries: the module-level default `registry` and one more that a
\* caller constructs with ABIRegistry()
Regs == {"registry", "other"}

\* nothing recorded yet for either side of a registry
NoHist == [encoder |-> {}, decoder |-> {}]

----------------------------------------------------------------------------
(* Predicates *)

Equals(value, oid) == [cls |-> "Equals", slots |-> <<value>>, oid |-> oid]

BaseEquals(base, with_sub, oid) ==
    [cls |-> "BaseEquals", slots |-> <<base, with_sub>>, oid |-> oid]

has_arrlist == [cls |-> "function", slots |-> <<"has_arrlist">>, oid |-> 0]

is_tuple_type == [cls |-> "function", slots |-> <<"is_tuple_type">>, oid |-> 0]

\* a caller's own function that accepts every string: lambda type_str: True
any_str == [cls |-> "function", slots |-> <<"any_str">>, oid |-> 0]

\* Predicate.__eq__; for plain functions, Python's default identity equality
PredEq(p, q) == p.cls = q.cls /\ p.slots = q.slots

\* the `is` operator
Is(p, q) == p = q

----------------------------------------------------------------------------
(* The grammar: type strings and their parse *)

ParseError == [kind |-> "ParseError"]

BasicType(base, sub, arrlist) ==
    [kind |-> "BasicType", base |-> base, sub |-> sub, arrlist |-> arrlist]

TupleType == [kind |-> "TupleType"]

TypeStrs == {"uint256", "uint256[2]", "]["}

(* The basic type strings base sub? arrlist?: every base name of the       *)
(* default registry and one that it does not know, with and without a sub  *)
(* and an array-dimension list.                                            *)
Bases ==
    {"uint", "int", "address", "bool", "ufixed", "fixed", "bytes", "function",
     "string", "other"}

Subs == {"", "8", "32", "256", "128x18"}

Arrlists == {"", "[2]", "[]", "[2][3]"}

BasicTypeStrs ==
    {[str  |-> b \o s \o a,
      type |-> BasicType(b, IF s = "" THEN None ELSE s,
                            IF a = "" THEN None ELSE a)]
        : b \in Bases, s \in Subs, a \in Arrlists}

TupleTypeStrs == {"(uint256)", "(uint256,bool)", "()", "((uint256),bytes32[2])"}

\* strings that the grammar rejects
Malformed == {"][", "uint256[", "(uint256", ""}

parse(type_str) ==
    CASE type_str = "uint256"    -> BasicType("uint", "256", None)
      [] type_str = "uint256[2]" -> BasicType("uint", "256", "[2]")
      [] type_str = "uint"       -> BasicType("uint", None, None)
      [] type_str = "bytes32"    -> BasicType("bytes", "32", None)
      [] type_str = "bytes"      -> BasicType("bytes", None, None)
      [] type_str \in TupleTypeStrs -> TupleType
      [] OTHER ->
            IF \E e \in BasicTypeStrs : e.str = type_str
            THEN (CHOOSE e \in BasicTypeStrs : e.str = type_str).type
            ELSE ParseError

\* the type string of an array type's elements
item_type(type_str) ==
    CASE type_str = "uint256[2]" -> "uint256"
      [] OTHER                   -> None

\* Equals.__call__
Equals_call(self, other) == self.slots[1] = other

\* BaseEquals.__call__ that ignores with_sub
BaseEquals_call_IgnoreSub(self, type_str) ==
    LET abi_type == parse(type_str)
    IN  IF abi_type = ParseError THEN FALSE
        ELSE IF abi_type.kind = "BasicType"
        THEN abi_type.arrlist = None /\ abi_type.base = self.slots[1]
        ELSE FALSE

\* BaseEquals.__call__
BaseEquals_call(self, type_str) ==
    LET abi_type == parse(type_str)
        base     == self.slots[1]
        with_sub == self.slots[2]
    IN  IF abi_type = ParseError THEN FALSE
        ELSE IF abi_type.kind = "BasicType"
        THEN IF abi_type.arrlist # None THEN FALSE
             ELSE IF with_sub # None /\ with_sub = "True" /\ abi_type.sub = None
             THEN FALSE
             ELSE IF with_sub # None /\ with_sub = "False" /\ abi_type.sub # None
             THEN FALSE
             ELSE abi_type.base = base
        ELSE FALSE

has_arrlist_call(type_str) ==
    LET abi_type == parse(type_str)
    IN  IF abi_type = ParseError THEN FALSE
        ELSE abi_type.kind = "BasicType" /\ abi_type.arrlist # None

is_tuple_type_call(type_str) ==
    LET abi_type == parse(type_str)
    IN  IF abi_type = ParseError THEN FALSE
        ELSE abi_type.kind = "TupleType"

\* predicate(type_str)
Call(predicate, type_str) ==
    CASE predicate.cls = "Equals"     -> Equals_call(predicate, type_str)
      [] predicate.cls = "BaseEquals" -> BaseEquals_call(predicate, type_str)
      [] predicate = has_arrlist      -> has_arrlist_call(type_str)
      [] predicate = is_tuple_type    -> is_tuple_type_call(type_str)
      [] OTHER                        -> TRUE

----------------------------------------------------------------------------
(* PredicateMapping *)

\* PredicateMapping.__init__
NewMapping == [values |-> {}, labeled_predicates |-> <<>>]

\* predicate in self._values
InValues(m, predicate) == \E e \in m.values : PredEq(e.predicate, predicate)

\* label in self._labeled_predicates
InLabels(m, label) ==
    \E i \in 1..Len(m.labeled_predicates) : m.labeled_predicates[i].label = label

\* self._labeled_predicates[label]
LabelGet(m, label) ==
    LET i == CHOOSE i \in 1..Len(m.labeled_predicates) :
                 m.labeled_predicates[i].label = label
    IN  m.labeled_predicates[i].predicate

\* del self._labeled_predicates[label]
LabelDel(lp, label) == SelectSeq(lp, LAMBDA e : e.label # label)

\* del self._values[predicate]
ValuesDel(vs, predicate) == {e \in vs : ~PredEq(e.predicate, predicate)}

Ok(m) == [m |-> m, err |-> "none", ret |-> None]

Raise(m, err) == [m |-> m, err |-> err, ret |-> None]

\* add without the predicate check: an equal stored predicate is replaced
add_Overwrite(m, predicate, value, label) ==
    IF label # None /\ InLabels(m, label) THEN Raise(m, "DuplicateLabel")
    ELSE Ok([values |-> ValuesDel(m.values, predicate) \cup
                          {[predicate |-> predicate, value |-> value]},
             labeled_predicates |->
                 IF label # None
                 THEN Append(m.labeled_predicates,
                             [label |-> label, predicate |-> predicate])
                 ELSE m.labeled_predicates])

\* add without the label check: an existing label is silently re-bound
add_RebindLabel(m, predicate, value, label) ==
    IF InValues(m, predicate) THEN Raise(m, "DuplicatePredicate")
    ELSE Ok([values |-> m.values \cup
                          {[predicate |-> predicate, value |-> value]},
             labeled_predicates |->
                 IF label # None
                 THEN Append(LabelDel(m.labeled_predicates, label),
                             [label |-> label, predicate |-> predicate])
                 ELSE m.labeled_predicates])

\* PredicateMapping.add
add(m, predicate, value, label) ==
    IF InValues(m, predicate) THEN Raise(m, "DuplicatePredicate")
    ELSE IF label # None /\ InLabels(m, label) THEN Raise(m, "DuplicateLabel")
    ELSE Ok([values |-> m.values \cup
                          {[predicate |-> predicate, value |-> value]},
             labeled_predicates |->
                 IF label # None
                 THEN Append(m.labeled_predicates,
                             [label |-> label, predicate |-> predicate])
                 ELSE m.labeled_predicates])

\* the predicates of the mapping that accept type_str
Matches(m, type_str) == {e \in m.values : Call(e.predicate, type_str)}

\* find that returns a match even when several predicates accept
find_AnyMatch(m, type_str) ==
    LET results == Matches(m, type_str)
    IN  IF Cardinality(results) = 0 THEN Raise(m, "NoMatchingCoder")
        ELSE [m |-> m, err |-> "none",
              ret |-> (CHOOSE e \in results : TRUE).value]

\* PredicateMapping.find
find(m, type_str) ==
    LET results == Matches(m, type_str)
    IN  IF Cardinality(results) = 0 THEN Raise(m, "NoMatchingCoder")
        ELSE IF Cardinality(results) > 1 THEN Raise(m, "AmbiguousMatch")
        ELSE [m |-> m, err |-> "none",
              ret |-> (CHOOSE e \in results : TRUE).value]

\* PredicateMapping._label_for_predicate: the index of the first label whose
\* value is the given object, 0 when it raises ValueError
label_for_predicate(m, predicate) ==
    LET hits == {i \in 1..Len(m.labeled_predicates) :
                    Is(m.labeled_predicates[i].predicate, predicate)}
    IN  IF hits = {} THEN 0
        ELSE CHOOSE i \in hits : \A j \in hits : i <= j

\* PredicateMapping.remove_by_equality
remove_by_equality(m, predicate) ==
    IF ~InValues(m, predicate) THEN Raise(m, "NotFound")
    ELSE LET i == label_for_predicate(m, predicate)
         IN  Ok([values |-> ValuesDel(m.values, predicate),
                 labeled_predicates |->
                     IF i = 0 THEN m.labeled_predicates
                     ELSE LabelDel(m.labeled_predicates,
                                   m.labeled_predicates[i].label)])

\* PredicateMapping.remove_by_label
remove_by_label(m, label) ==
    IF ~InLabels(m, label) THEN Raise(m, "LabelNotFound")
    ELSE LET predicate == LabelGet(m, label)
             lp        == LabelDel(m.labeled_predicates, label)
         IN  IF InValues(m, predicate)
             THEN Ok([values |-> ValuesDel(m.values, predicate),
                      labeled_predicates |-> lp])
             ELSE Raise([values |-> m.values, labeled_predicates |-> lp],
                        "KeyError")

(* Arguments that may be a predicate, a string or something else *)
NoPredicate == [cls |-> "NoneType", slots |-> <<>>, oid |-> 0]

Callable(predicate) == [type |-> "callable", predicate |-> predicate, str |-> None]

Str(s) == [type |-> "str", predicate |-> NoPredicate, str |-> s]

\* a value that is neither callable nor a string, such as 42
NotALookup == [type |-> "int", predicate |-> NoPredicate, str |-> None]

\* PredicateMapping.remove
remove(m, predicate_or_label) ==
    IF predicate_or_label.type = "callable"
    THEN remove_by_equality(m, predicate_or_label.predicate)
    ELSE IF predicate_or_label.type = "str"
    THEN remove_by_label(m, predicate_or_label.str)
    ELSE Raise(m, "TypeError")

----------------------------------------------------------------------------
(* Coders: a plain callable is returned as registered; a class that        *)
(* subclasses BaseCoder is instantiated through from_type_str.  "fn" is a  *)
(* caller's plain callable and "Coder" a caller's BaseCoder subclass; the  *)
(* other names are the classes of the encoding and decoding modules.       *)

Coders == {"fn", "Coder"}

\* isinstance(coder, type) and issubclass(coder, BaseCoder)
IsCoderClass(coder) == coder # "fn"

----------------------------------------------------------------------------
(* ABIRegistry *)

\* _register_coder that files a string lookup under the label passed
register_coder_PassedLabel(m, lookup, coder, label) ==
    IF lookup.type = "callable" THEN add(m, lookup.predicate, coder, label)
    ELSE IF lookup.type = "str"
    THEN add(m, Equals(lookup.str, 0), coder, label)
    ELSE Raise(m, "TypeError")

\* ABIRegistry._register_coder
register_coder(m, lookup, coder, label) ==
    IF lookup.type = "callable" THEN add(m, lookup.predicate, coder, label)
    ELSE IF lookup.type = "str"
    THEN add(m, Equals(lookup.str, 0), coder, lookup.str)
    ELSE Raise(m, "TypeError")

\* ABIRegistry._unregister_coder
unregister_coder(m, lookup_or_label) ==
    IF lookup_or_label.type = "callable"
    THEN remove_by_equality(m, lookup_or_label.predicate)
    ELSE IF lookup_or_label.type = "str"
    THEN remove_by_label(m, lookup_or_label.str)
    ELSE Raise(m, "TypeError")

(* What get_encoder / get_decoder return: a registered plain callable as   *)
(* it is, or an instance built by a coder class, with the identity id.     *)
Plain(coder) == [cls |-> coder, type_str |-> None, item |-> <<>>, id |-> 0]

Instance(cls, type_str, item, id) ==
    [cls |-> cls, type_str |-> type_str, item |-> item, id |-> id]

NoValue == Plain(None)

\* the identities of an object and of the objects it refers to
IdsOf(value) ==
    ({value.id} \cup {value.item[i].id : i \in 1..Len(value.item)}) \ {0}

\* a new object's identity: one that no live object has
NewId(used) == CHOOSE n \in 1..(Cardinality(used) + 1) : n \notin used

\* the key of an lru_cache entry is the pair (self, type_str)
CacheHit(cache, self, type_str) ==
    {c \in cache : c.self = self /\ c.type_str = type_str}

RECURSIVE lru_get(_, _, _, _, _)
RECURSIVE get_coder(_, _, _, _, _)
RECURSIVE from_type_str(_, _, _, _, _, _)

\* BaseCoder.from_type_str(type_str, registry) of a coder class: parses the
\* type string, resolves the element type of an array through the registry's
\* own get method for the same side, then builds the instance
from_type_str(cls, m, self, type_str, cache, st) ==
    LET abi_type == parse(type_str)
    IN  IF abi_type = ParseError
        THEN [st EXCEPT !.err = "ParseError", !.cache = cache]
        ELSE IF abi_type.kind = "BasicType" /\ abi_type.arrlist # None
        THEN LET sub == lru_get(m, self, item_type(type_str), cache, st)
             IN  IF sub.err # "none" THEN sub
                 ELSE [sub EXCEPT
                         !.ret = Instance(cls, type_str, <<sub.ret>>, NewId(sub.used)),
                         !.constructs = sub.constructs + 1,
                         !.used = sub.used \cup {NewId(sub.used)}]
        ELSE [st EXCEPT
                !.cache = cache,
                !.ret = Instance(cls, type_str, <<>>, NewId(st.used)),
                !.constructs = st.constructs + 1,
                !.used = st.used \cup {NewId(st.used)}]

\* _get_coder that does not re-parse after a no-match
get_coder_NoParse(m, self, type_str, cache, st) ==
    LET found == find(m, type_str)
        st1   == [st EXCEPT !.finds = st.finds + 1, !.cache = cache]
    IN  IF found.err # "none" THEN [st1 EXCEPT !.err = found.err]
        ELSE IF IsCoderClass(found.ret)
        THEN from_type_str(found.ret, m, self, type_str, cache, st1)
        ELSE [st1 EXCEPT !.ret = Plain(found.ret)]

\* ABIRegistry._get_coder
get_coder(m, self, type_str, cache, st) ==
    LET found == find(m, type_str)
        st1   == [st EXCEPT !.finds = st.finds + 1, !.cache = cache]
    IN  IF found.err = "NoMatchingCoder"
        THEN IF parse(type_str) = ParseError
             THEN [st1 EXCEPT !.err = "ParseError"]
             ELSE [st1 EXCEPT !.err = "NoMatchingCoder"]
        ELSE IF found.err # "none" THEN [st1 EXCEPT !.err = found.err]
        ELSE IF IsCoderClass(found.ret)
        THEN from_type_str(found.ret, m, self, type_str, cache, st1)
        ELSE [st1 EXCEPT !.ret = Plain(found.ret)]

\* a cache that also remembers a failed call
lru_get_CacheFailures(m, self, type_str, cache, st) ==
    LET hit == CacheHit(cache, self, type_str)
    IN  IF hit # {}
        THEN [st EXCEPT !.cache = cache, !.ret = (CHOOSE c \in hit : TRUE).value]
        ELSE LET res == get_coder(m, self, type_str, cache, st)
             IN  [res EXCEPT !.cache = res.cache \cup
                     {[self |-> self, type_str |-> type_str,
                       value |-> IF res.err = "none" THEN res.ret
                                 ELSE Instance(None, res.err, <<>>, 0)]}]

\* functools.lru_cache(maxsize=None) around get_encoder / get_decoder
lru_get(m, self, type_str, cache, st) ==
    LET hit == CacheHit(cache, self, type_str)
    IN  IF hit # {}
        THEN [st EXCEPT !.cache = cache, !.ret = (CHOOSE c \in hit : TRUE).value]
        ELSE LET res == get_coder(m, self, type_str, cache, st)
             IN  IF res.err # "none" THEN res
                 ELSE [res EXCEPT !.cache = res.cache \cup
                          {[self |-> self, type_str |-> type_str, value |-> res.ret]}]

\* the identities of the objects that are alive: held by a cache or by a
\* caller that received them since the last mutation of its registry
LiveIds ==
    UNION ({IdsOf(c.value) : c \in encoder_cache \cup decoder_cache}
           \cup {IdsOf(h.value) : h \in UNION {hist[r].encoder \cup hist[r].decoder
                                               : r \in Regs}})

StartGet == [cache |-> {}, err |-> "none", ret |-> NoValue,
             finds |-> 0, constructs |-> 0, used |-> LiveIds]

\* ABIRegistry.get_encoder
get_encoder(self, type_str) ==
    lru_get(encoders[self], self, type_str, encoder_cache, StartGet)

\* ABIRegistry.get_decoder
get_decoder(self, type_str) ==
    lru_get(decoders[self], self, type_str, decoder_cache, StartGet)

----------------------------------------------------------------------------
(* The record of a call: its name, registry, arguments and outcome *)

Call0(op, args, out) ==
    [op |-> op, reg |-> None, args |-> args, err |-> out.err, ret |-> out.ret,
     finds |-> 0, constructs |-> 0, evicted |-> 0]

NoCall ==
    [op |-> "init", reg |-> None, args |-> <<>>, err |-> "none", ret |-> None,
     finds |-> 0, constructs |-> 0, evicted |-> 0]

----------------------------------------------------------------------------
(* The registries: the module-level default `registry`, populated by the   *)
(* twelve register calls at the end of the module, and one more registry   *)
(* that a caller constructs with ABIRegistry().                            *)

\* the predicate objects constructed by the module itself have oid 1; a
\* caller that writes BaseEquals('uint') constructs another object
DefaultRegistrations ==
    << <<BaseEquals("uint", None, 1), "UnsignedIntegerEncoder", "UnsignedIntegerDecoder", "uint">>,
       <<BaseEquals("int", None, 1), "SignedIntegerEncoder", "SignedIntegerDecoder", "int">>,
       <<BaseEquals("address", None, 1), "AddressEncoder", "AddressDecoder", "address">>,
       <<BaseEquals("bool", None, 1), "BooleanEncoder", "BooleanDecoder", "bool">>,
       <<BaseEquals("ufixed", None, 1), "UnsignedFixedEncoder", "UnsignedFixedDecoder", "ufixed">>,
       <<BaseEquals("fixed", None, 1), "SignedFixedEncoder", "SignedFixedDecoder", "fixed">>,
       <<BaseEquals("bytes", "True", 1), "BytesEncoder", "BytesDecoder", "bytes<M>">>,
       <<BaseEquals("bytes", "False", 1), "ByteStringEncoder", "ByteStringDecoder", "bytes">>,
       <<BaseEquals("function", None, 1), "BytesEncoder", "BytesDecoder", "function">>,
       <<BaseEquals("string", None, 1), "TextStringEncoder", "StringDecoder", "string">>,
       <<has_arrlist, "BaseArrayEncoder", "BaseArrayDecoder", "has_arrlist">>,
       <<is_tuple_type, "TupleEncoder", "TupleDecoder", "is_tuple_type">> >>

\* the default registry after its first n registrations
RECURSIVE Bootstrap(_)
Bootstrap(n) ==
    IF n = 0 THEN [encoders |-> NewMapping, decoders |-> NewMapping]
    ELSE LET before == Bootstrap(n - 1)
             r      == DefaultRegistrations[n]
         IN  [encoders |-> register_coder(before.encoders, Callable(r[1]), r[2], r[4]).m,
              decoders |-> register_coder(before.decoders, Callable(r[1]), r[3], r[4]).m]

\* ABIRegistry.__init__, followed for `registry` by the module's registrations
NewRegistry(r) ==
    IF r = "registry" THEN Bootstrap(Len(DefaultRegistrations))
    ELSE [encoders |-> NewMapping, decoders |-> NewMapping]

InitRegistry ==
    /\ encoders = [r \in Regs |-> NewRegistry(r).encoders]
    /\ decoders = [r \in Regs |-> NewRegistry(r).decoders]
    /\ encoder_cache = {}
    /\ decoder_cache = {}
    /\ hist = [r \in Regs |-> NoHist]
    /\ failed = [r \in Regs |-> NoHist]
    /\ calls = 0

(* Threads.  A call made by a thread is a record of its name and          *)
(* arguments; a thread is idle or at a step of its call.                   *)
Threads == {"t1", "t2"}

NoRes == [err |-> "none", ret |-> NoValue]

IdleThread ==
    [pc |-> "idle", op |-> "none", lookup |-> NotALookup, label |-> None,
     type_str |-> None, res |-> NoRes]

\* no concurrent callers: every call runs from start to end
NoThreads == [locking |-> FALSE, lock |-> None, th |-> [t \in Threads |-> IdleThread]]

Init ==
    /\ mapping = NewMapping
    /\ last = NoCall
    /\ InitRegistry
    /\ threads = NoThreads

----------------------------------------------------------------------------
(* A PredicateMapping used on its own *)

MapPredicates ==
    {BaseEquals("uint", None, 1), BaseEquals("uint", None, 2),
     Equals("][", 1), any_str}

MapLabels == {None, "a", "b"}

RegistryUnchanged ==
    UNCHANGED <<encoders, decoders, encoder_cache, decoder_cache, hist, failed,
                calls, threads>>

Add(predicate, value, label) ==
    LET out == add(mapping, predicate, value, label)
    IN  /\ mapping' = out.m
        /\ last' = Call0("add", <<predicate, value, label>>, out)
        /\ RegistryUnchanged

Find(type_str) ==
    LET out == find(mapping, type_str)
    IN  /\ mapping' = out.m
        /\ last' = Call0("find", <<type_str>>, out)
        /\ RegistryUnchanged

RemoveByEquality(predicate) ==
    LET out == remove_by_equality(mapping, predicate)
    IN  /\ mapping' = out.m
        /\ last' = Call0("remove_by_equality", <<predicate>>, out)
        /\ RegistryUnchanged

RemoveByLabel(label) ==
    LET out == remove_by_label(mapping, label)
    IN  /\ mapping' = out.m
        /\ last' = Call0("remove_by_label", <<label>>, out)
        /\ RegistryUnchanged

Remove(predicate_or_label) ==
    LET out == remove(mapping, predicate_or_label)
    IN  /\ mapping' = out.m
        /\ last' = Call0("remove", <<predicate_or_label>>, out)
        /\ RegistryUnchanged

NextMap ==
    \/ \E p \in MapPredicates, v \in Coders, l \in MapLabels : Add(p, v, l)
    \/ \E t \in TypeStrs : Find(t)
    \/ \E p \in MapPredicates : RemoveByEquality(p)
    \/ \E l \in MapLabels \ {None} : RemoveByLabel(l)
    \/ \E x \in {Callable(p) : p \in MapPredicates}
                \cup {Str(l) : l \in MapLabels \ {None}}
                \cup {NotALookup} : Remove(x)

SpecMap == Init /\ [][NextMap]_vars

(* The predicates of the default registry applied to every type string:    *)
(* the mapping is the encoder or the decoder mapping of the default         *)
(* registry, and find is called on it.                                      *)
ShapeStrs == {e.str : e \in BasicTypeStrs} \cup TupleTypeStrs \cup Malformed

InitShapes ==
    /\ mapping \in {NewRegistry("registry").encoders,
                    NewRegistry("registry").decoders}
    /\ last = NoCall
    /\ InitRegistry
    /\ threads = NoThreads

NextShapes == \E t \in ShapeStrs : Find(t)

SpecShapes == InitShapes /\ [][NextShapes]_vars

----------------------------------------------------------------------------
(* The calls on an ABIRegistry.  The decorators _clear_encoder_cache and   *)
(* _clear_decoder_cache run cache_clear() on the wrapped lru_cache, which  *)
(* is an attribute of the class, before the decorated method runs.         *)

\* a cache_clear that drops nothing
cache_clear_Keep(cache) == cache

\* _clear_encoder_cache / _clear_decoder_cache: self.get_*.cache_clear()
cache_clear(cache) == {}

\* one more call on a registry
Called ==
    /\ calls < MaxCalls
    /\ calls' = calls + 1
    /\ UNCHANGED threads

Mutation(op, self, args, err, evicted) ==
    [op |-> op, reg |-> self, args |-> args, err |-> err, ret |-> NoValue,
     finds |-> 0, constructs |-> 0, evicted |-> evicted]

\* register_encoder that clears the cache only after a successful add
RegisterEncoder_ClearOnSuccess(self, lookup, encoder, label) ==
    LET out == register_coder(encoders[self], lookup, encoder, label)
    IN  /\ Called
        /\ encoder_cache' = IF out.err = "none" THEN {} ELSE encoder_cache
        /\ encoders' = [encoders EXCEPT ![self] = out.m]
        /\ hist' = [hist EXCEPT ![self] = NoHist]
        /\ last' = Mutation("register_encoder", self, <<lookup, label>>,
                            out.err, 0)
        /\ UNCHANGED <<mapping, failed, decoders, decoder_cache>>

RegisterEncoder(self, lookup, encoder, label) ==
    LET out == register_coder(encoders[self], lookup, encoder, label)
    IN  /\ Called
        /\ encoder_cache' = cache_clear(encoder_cache)
        /\ encoders' = [encoders EXCEPT ![self] = out.m]
        /\ hist' = [hist EXCEPT ![self] = NoHist]
        /\ last' = Mutation("register_encoder", self, <<lookup, label>>,
                            out.err, Cardinality(encoder_cache))
        /\ UNCHANGED <<mapping, failed, decoders, decoder_cache>>

RegisterDecoder(self, lookup, decoder, label) ==
    LET out == register_coder(decoders[self], lookup, decoder, label)
    IN  /\ Called
        /\ decoder_cache' = cache_clear(decoder_cache)
        /\ decoders' = [decoders EXCEPT ![self] = out.m]
        /\ hist' = [hist EXCEPT ![self] = NoHist]
        /\ last' = Mutation("register_decoder", self, <<lookup, label>>,
                            out.err, Cardinality(decoder_cache))
        /\ UNCHANGED <<mapping, failed, encoders, encoder_cache>>

\* unregister_encoder that clears the caches of both sides
UnregisterEncoder_ClearBoth(self, lookup_or_label) ==
    LET out == unregister_coder(encoders[self], lookup_or_label)
    IN  /\ Called
        /\ encoder_cache' = cache_clear(encoder_cache)
        /\ decoder_cache' = cache_clear(decoder_cache)
        /\ encoders' = [encoders EXCEPT ![self] = out.m]
        /\ hist' = [hist EXCEPT ![self] = NoHist]
        /\ last' = Mutation("unregister_encoder", self, <<lookup_or_label>>,
                            out.err, Cardinality(encoder_cache))
        /\ UNCHANGED <<mapping, failed, decoders>>

UnregisterEncoder(self, lookup_or_label) ==
    LET out == unregister_coder(encoders[self], lookup_or_label)
    IN  /\ Called
        /\ encoder_cache' = cache_clear(encoder_cache)
        /\ encoders' = [encoders EXCEPT ![self] = out.m]
        /\ hist' = [hist EXCEPT ![self] = NoHist]
        /\ last' = Mutation("unregister_encoder", self, <<lookup_or_label>>,
                            out.err, Cardinality(encoder_cache))
        /\ UNCHANGED <<mapping, failed, decoders, decoder_cache>>

UnregisterDecoder(self, lookup_or_label) ==
    LET out == unregister_coder(decoders[self], lookup_or_label)
    IN  /\ Called
        /\ decoder_cache' = cache_clear(decoder_cache)
        /\ decoders' = [decoders EXCEPT ![self] = out.m]
        /\ hist' = [hist EXCEPT ![self] = NoHist]
        /\ last' = Mutation("unregister_decoder", self, <<lookup_or_label>>,
                            out.err, Cardinality(decoder_cache))
        /\ UNCHANGED <<mapping, failed, encoders, encoder_cache>>

\* register that takes the encoder entry back when the decoder side fails
Register_Transactional(self, lookup, encoder, decoder, label) ==
    LET e == register_coder(encoders[self], lookup, encoder, label)
        d == register_coder(decoders[self], lookup, decoder, label)
    IN  /\ Called
        /\ encoder_cache' = cache_clear(encoder_cache)
        /\ hist' = [hist EXCEPT ![self] = NoHist]
        /\ IF e.err # "none"
           THEN /\ UNCHANGED <<encoders, decoders, decoder_cache>>
                /\ last' = Mutation("register", self, <<lookup, label>>,
                                    e.err, Cardinality(encoder_cache))
           ELSE /\ decoder_cache' = cache_clear(decoder_cache)
                /\ decoders' = [decoders EXCEPT ![self] = d.m]
                /\ encoders' = IF d.err # "none" THEN encoders
                               ELSE [encoders EXCEPT ![self] = e.m]
                /\ last' = Mutation("register", self, <<lookup, label>>,
                                    d.err,
                                    Cardinality(encoder_cache)
                                        + Cardinality(decoder_cache))
        /\ UNCHANGED <<mapping, failed>>

\* ABIRegistry.register: register_encoder, then register_decoder unless the
\* first call raised
Register(self, lookup, encoder, decoder, label) ==
    LET e == register_coder(encoders[self], lookup, encoder, label)
        d == register_coder(decoders[self], lookup, decoder, label)
    IN  /\ Called
        /\ encoder_cache' = cache_clear(encoder_cache)
        /\ encoders' = [encoders EXCEPT ![self] = e.m]
        /\ hist' = [hist EXCEPT ![self] = NoHist]
        /\ IF e.err # "none"
           THEN /\ UNCHANGED <<decoders, decoder_cache>>
                /\ last' = Mutation("register", self,
                                    <<lookup, label>>,
                                    e.err, Cardinality(encoder_cache))
           ELSE /\ decoder_cache' = cache_clear(decoder_cache)
                /\ decoders' = [decoders EXCEPT ![self] = d.m]
                /\ last' = Mutation("register", self,
                                    <<lookup, label>>,
                                    d.err,
                                    Cardinality(encoder_cache)
                                        + Cardinality(decoder_cache))
        /\ UNCHANGED <<mapping, failed>>

\* unregister that rejects everything but a label string
Unregister_LabelOnly(self, label) ==
    LET e == unregister_coder(encoders[self], label)
        d == unregister_coder(decoders[self], label)
    IN  /\ Called
        /\ encoder_cache' = cache_clear(encoder_cache)
        /\ hist' = [hist EXCEPT ![self] = NoHist]
        /\ IF label.type # "str"
           THEN /\ UNCHANGED <<encoders, decoders, decoder_cache>>
                /\ last' = Mutation("unregister", self, <<label>>,
                                    "TypeError", Cardinality(encoder_cache))
           ELSE IF e.err # "none"
           THEN /\ encoders' = [encoders EXCEPT ![self] = e.m]
                /\ UNCHANGED <<decoders, decoder_cache>>
                /\ last' = Mutation("unregister", self, <<label>>,
                                    e.err, Cardinality(encoder_cache))
           ELSE /\ encoders' = [encoders EXCEPT ![self] = e.m]
                /\ decoder_cache' = cache_clear(decoder_cache)
                /\ decoders' = [decoders EXCEPT ![self] = d.m]
                /\ last' = Mutation("unregister", self, <<label>>,
                                    d.err,
                                    Cardinality(encoder_cache)
                                        + Cardinality(decoder_cache))
        /\ UNCHANGED <<mapping, failed>>

\* ABIRegistry.unregister: unregister_encoder, then unregister_decoder unless
\* the first call raised
Unregister(self, label) ==
    LET e == unregister_coder(encoders[self], label)
        d == unregister_coder(decoders[self], label)
    IN  /\ Called
        /\ encoder_cache' = cache_clear(encoder_cache)
        /\ encoders' = [encoders EXCEPT ![self] = e.m]
        /\ hist' = [hist EXCEPT ![self] = NoHist]
        /\ IF e.err # "none"
           THEN /\ UNCHANGED <<decoders, decoder_cache>>
                /\ last' = Mutation("unregister", self, <<label>>,
                                    e.err, Cardinality(encoder_cache))
           ELSE /\ decoder_cache' = cache_clear(decoder_cache)
                /\ decoders' = [decoders EXCEPT ![self] = d.m]
                /\ last' = Mutation("unregister", self, <<label>>,
                                    d.err,
                                    Cardinality(encoder_cache)
                                        + Cardinality(decoder_cache))
        /\ UNCHANGED <<mapping, failed>>

Returned(op, self, type_str, out) ==
    [op |-> op, reg |-> self, args |-> <<type_str>>, err |-> out.err,
     ret |-> out.ret, finds |-> out.finds, constructs |-> out.constructs,
     evicted |-> 0]

Remember(h, type_str, out) ==
    IF out.err # "none" THEN h
    ELSE {e \in h : e.type_str # type_str}
             \cup {[type_str |-> type_str, value |-> out.ret]}

Failed(f, type_str, out) == IF out.err # "none" THEN f \cup {type_str} ELSE f

GetEncoder(self, type_str) ==
    LET out == get_encoder(self, type_str)
    IN  /\ Called
        /\ encoder_cache' = out.cache
        /\ hist' = [hist EXCEPT ![self].encoder = Remember(@, type_str, out)]
        /\ failed' = [failed EXCEPT ![self].encoder = Failed(@, type_str, out)]
        /\ last' = Returned("get_encoder", self, type_str, out)
        /\ UNCHANGED <<mapping, encoders, decoders, decoder_cache>>

GetDecoder(self, type_str) ==
    LET out == get_decoder(self, type_str)
    IN  /\ Called
        /\ decoder_cache' = out.cache
        /\ hist' = [hist EXCEPT ![self].decoder = Remember(@, type_str, out)]
        /\ failed' = [failed EXCEPT ![self].decoder = Failed(@, type_str, out)]
        /\ last' = Returned("get_decoder", self, type_str, out)
        /\ UNCHANGED <<mapping, encoders, decoders, encoder_cache>>

(* The calls explored.  On the default registry every lookup and label     *)
(* below is used; the other registry is configured by string lookups.      *)
Lookups(r) ==
    IF r = "registry"
    THEN {Callable(BaseEquals("uint", None, 2)), Callable(Equals("uint256", 1)),
          Callable(has_arrlist), Str("uint256"), NotALookup}
    ELSE {Str("uint256"), Str("][")}

Labels(r) == IF r = "registry" THEN {None, "uint"} ELSE {None}

CodersFor(r) == IF r = "registry" THEN {"fn"} ELSE {"Coder"}

Removals(r) ==
    Lookups(r) \cup (IF r = "registry" THEN {Str("uint"), Str("has_arrlist")} ELSE {})

Queries(r) == IF r = "registry" THEN TypeStrs ELSE {"uint256", "]["}

Next ==
    \/ \E r \in Regs : \E k \in Lookups(r), c \in CodersFor(r), l \in Labels(r) :
           RegisterEncoder(r, k, c, l)
    \/ \E r \in Regs : \E k \in Lookups(r), c \in CodersFor(r), l \in Labels(r) :
           RegisterDecoder(r, k, c, l)
    \/ \E r \in Regs : \E k \in Lookups(r), c \in CodersFor(r), l \in Labels(r) :
           Register(r, k, c, c, l)
    \/ \E r \in Regs : \E k \in Removals(r) : UnregisterEncoder(r, k)
    \/ \E r \in Regs : \E k \in Removals(r) : UnregisterDecoder(r, k)
    \/ \E r \in Regs : \E k \in Removals(r) : Unregister(r, k)
    \/ \E r \in Regs : \E t \in Queries(r) : GetEncoder(r, t)
    \/ \E r \in Regs : \E t \in Queries(r) : GetDecoder(r, t)

Spec == Init /\ [][Next]_vars

----------------------------------------------------------------------------
(* Threads calling the default registry concurrently.  A decorated         *)
(* register_encoder / unregister_encoder is two steps: the decorator's      *)
(* cache_clear(), then the wrapped method's update of the mapping.  A       *)
(* get_encoder is three: the lru_cache wrapper looks the key up, on a miss  *)
(* it calls the wrapped method, which resolves against the mapping, and     *)
(* then it stores the result.  The registry has no lock of its own; when    *)
(* `locking` is set the callers hold one lock of theirs across each call.   *)

ThreadCall(op, lookup, label, type_str) ==
    [pc |-> IF op = "get_encoder" THEN "lookup" ELSE "clear",
     op |-> op, lookup |-> lookup, label |-> label, type_str |-> type_str,
     res |-> NoRes]

\* the calls that the threads make
ThreadCalls ==
    {ThreadCall("unregister_encoder", Str("uint"), None, None),
     ThreadCall("register_encoder", Callable(BaseEquals("uint", None, 2)),
                "uint", None),
     ThreadCall("get_encoder", NotALookup, None, "uint256"),
     ThreadCall("get_encoder", NotALookup, None, "uint256[2]")}

\* the registry that the threads share
Shared == "registry"

InitThreads ==
    /\ mapping = NewMapping
    /\ last = NoCall
    /\ InitRegistry
    /\ threads \in {[NoThreads EXCEPT !.locking = b] : b \in BOOLEAN}

\* the caller's lock, when there is one, is free
LockFree == threads.locking => threads.lock = None

\* a thread that returns releases the lock it holds
Return(t) ==
    [threads EXCEPT !.lock = None, !.th[t] = IdleThread]

At(t, pc) == threads.th[t].pc = pc

ThreadsOnlyEncoders == UNCHANGED <<mapping, decoders, decoder_cache, hist, failed>>

\* a thread starts a call, after taking the lock if the callers use one
ThreadBegin(t, c) ==
    /\ At(t, "idle")
    /\ LockFree
    /\ calls < MaxCalls
    /\ calls' = calls + 1
    /\ threads' = [threads EXCEPT
                       !.lock = IF threads.locking THEN t ELSE None,
                       !.th[t] = c]
    /\ UNCHANGED <<encoders, encoder_cache, last>>
    /\ ThreadsOnlyEncoders

\* a mutation that goes on to the update without clearing the cache
ThreadClear_Skip(t) ==
    /\ At(t, "clear")
    /\ threads' = [threads EXCEPT !.th[t].pc = "update"]
    /\ UNCHANGED <<encoders, encoder_cache, last, calls>>
    /\ ThreadsOnlyEncoders

\* _clear_encoder_cache: self.get_encoder.cache_clear()
ThreadClear(t) ==
    /\ At(t, "clear")
    /\ encoder_cache' = cache_clear(encoder_cache)
    /\ threads' = [threads EXCEPT !.th[t].pc = "update"]
    /\ UNCHANGED <<encoders, last, calls>>
    /\ ThreadsOnlyEncoders

\* _clear_encoder_cache: return old_method(self, ...), the wrapped
\* register_encoder or unregister_encoder
ThreadUpdate(t) ==
    LET c   == threads.th[t]
        out == IF c.op = "register_encoder"
               THEN register_coder(encoders[Shared], c.lookup, "fn", c.label)
               ELSE unregister_coder(encoders[Shared], c.lookup)
    IN  /\ At(t, "update")
        /\ encoders' = [encoders EXCEPT ![Shared] = out.m]
        /\ last' = Mutation(c.op, Shared, <<c.lookup>>, out.err, 0)
        /\ threads' = Return(t)
        /\ UNCHANGED <<encoder_cache, calls>>
        /\ ThreadsOnlyEncoders

\* lru_cache wrapper of get_encoder: the cache lookup
ThreadLookup(t) ==
    LET c   == threads.th[t]
        hit == CacheHit(encoder_cache, Shared, c.type_str)
    IN  /\ At(t, "lookup")
        /\ IF hit # {}
           THEN /\ threads' = Return(t)
                /\ last' = Returned("get_encoder", Shared, c.type_str,
                                    [StartGet EXCEPT
                                        !.ret = (CHOOSE e \in hit : TRUE).value])
           ELSE /\ threads' = [threads EXCEPT !.th[t].pc = "resolve"]
                /\ UNCHANGED last
        /\ UNCHANGED <<encoders, encoder_cache, calls>>
        /\ ThreadsOnlyEncoders

\* the wrapped get_encoder: self._get_coder(self._encoders, type_str); an
\* array coder's from_type_str gets its element coder through get_encoder
ThreadResolve(t) ==
    LET c   == threads.th[t]
        res == get_coder(encoders[Shared], Shared, c.type_str, encoder_cache,
                         StartGet)
    IN  /\ At(t, "resolve")
        /\ encoder_cache' = res.cache
        /\ threads' = [threads EXCEPT
                           !.th[t].pc = "store",
                           !.th[t].res = [err |-> res.err, ret |-> res.ret]]
        /\ UNCHANGED <<encoders, last, calls>>
        /\ ThreadsOnlyEncoders

\* lru_cache wrapper of get_encoder: cache[key] = result, unless the wrapped
\* method raised
ThreadStore(t) ==
    LET c == threads.th[t]
    IN  /\ At(t, "store")
        /\ encoder_cache' =
               IF c.res.err # "none" THEN encoder_cache
               ELSE (encoder_cache \ CacheHit(encoder_cache, Shared, c.type_str))
                        \cup {[self |-> Shared, type_str |-> c.type_str,
                                value |-> c.res.ret]}
        /\ last' = Returned("get_encoder", Shared, c.type_str,
                            [StartGet EXCEPT !.err = c.res.err, !.ret = c.res.ret])
        /\ threads' = Return(t)
        /\ UNCHANGED <<encoders, calls>>
        /\ ThreadsOnlyEncoders

NextThreads ==
    \/ \E t \in Threads, c \in ThreadCalls : ThreadBegin(t, c)
    \/ \E t \in Threads : ThreadClear(t)
    \/ \E t \in Threads : ThreadUpdate(t)
    \/ \E t \in Threads : ThreadLookup(t)
    \/ \E t \in Threads : ThreadResolve(t)
    \/ \E t \in Threads : ThreadStore(t)

SpecThreads == InitThreads /\ [][NextThreads]_vars

----------------------------------------------------------------------------
(* Properties of PredicateMapping, checked under SpecMap *)

\* C1: find(T) raises the no-match error iff no stored predicate accepts T,
\* raises the ambiguous-match error iff two or more accept T, and otherwise
\* returns the value mapped to the single accepting predicate; find never
\* changes the mapping.
C1_FindExactlyOne ==
    [][\A t \in TypeStrs : Find(t) =>
          LET accepting == {e \in mapping.values : Call(e.predicate, t)}
              n         == Cardinality(accepting)
          IN  /\ (last'.err = "NoMatchingCoder") <=> (n = 0)
              /\ (last'.err = "AmbiguousMatch") <=> (n >= 2)
              /\ (n = 1) => /\ last'.err = "none"
                            /\ \A e \in accepting : last'.ret = e.value
              /\ mapping' = mapping]_vars

\* find returned the value of the one accepting predicate among several
\* stored ones
C1_Witness ==
    /\ last.op = "find"
    /\ last.err = "none"
    /\ Cardinality(mapping.values) >= 3
    /\ \E e \in mapping.values : ~Call(e.predicate, last.args[1])

\* C2: every label of the label index points to a predicate that is present
\* in the primary index, whatever add and remove calls were made; so a
\* predicate removed by remove_by_equality has lost its label too, also when
\* the object passed is only equal to the stored one.
C2_LabelsPointIntoValues ==
    \A i \in 1..Len(mapping.labeled_predicates) :
        InValues(mapping, mapping.labeled_predicates[i].predicate)

\* C6 as stated: if L is bound to p1 and p2 # p1, add(p2, v, L) raises the
\* duplicate-label error and changes neither index, and p2 is not in the
\* primary index.
C6_DuplicateLabelAlways ==
    [][\A p2 \in MapPredicates, v \in Coders, L \in MapLabels \ {None} :
          (/\ Add(p2, v, L)
           /\ InLabels(mapping, L)
           /\ ~PredEq(LabelGet(mapping, L), p2))
          => /\ last'.err = "DuplicateLabel"
             /\ mapping' = mapping
             /\ ~InValues(mapping', p2)]_vars

\* C6 amended: if L is bound to p1 and p2 # p1, add(p2, v, L) changes neither
\* index; it raises the duplicate-label error when p2 is not stored, and the
\* duplicate-predicate error when p2 is stored already.
C6_DuplicateLabelKeepsBinding ==
    [][\A p2 \in MapPredicates, v \in Coders, L \in MapLabels \ {None} :
          (/\ Add(p2, v, L)
           /\ InLabels(mapping, L)
           /\ ~PredEq(LabelGet(mapping, L), p2))
          => /\ mapping' = mapping
             /\ Is(LabelGet(mapping', L), LabelGet(mapping, L))
             /\ IF InValues(mapping, p2)
                THEN last'.err = "DuplicatePredicate"
                ELSE last'.err = "DuplicateLabel" /\ ~InValues(mapping', p2)]_vars

\* add(p2, v, L) has just raised the duplicate-label error: L is bound to a
\* stored predicate p1 # p2
C6_Witness ==
    /\ last.op = "add"
    /\ last.err = "DuplicateLabel"
    /\ InLabels(mapping, last.args[3])
    /\ ~PredEq(LabelGet(mapping, last.args[3]), last.args[1])
    /\ InValues(mapping, LabelGet(mapping, last.args[3]))

----------------------------------------------------------------------------
(* Properties of ABIRegistry, checked under Spec *)

\* the mapping of one side of a registry
Side(side, r) == IF side = "encoder" THEN encoders[r] ELSE decoders[r]

SideOf(op) == IF op = "get_encoder" THEN "encoder" ELSE "decoder"

IsGet(op) == op \in {"get_encoder", "get_decoder"}

\* a resolution of type_str against the current mapping that uses no cache
Uncached(side, r, type_str) == get_coder(Side(side, r), r, type_str, {}, StartGet)

\* the same coder, whichever instance of it
SameCoder(a, b) ==
    /\ a.cls = b.cls
    /\ a.type_str = b.type_str
    /\ Len(a.item) = Len(b.item)
    /\ \A i \in 1..Len(a.item) :
           a.item[i].cls = b.item[i].cls /\ a.item[i].type_str = b.item[i].type_str

SameOutcome(out, err, ret) ==
    /\ out.err = err
    /\ err = "none" => SameCoder(out.ret, ret)

\* C3: in any sequence of register, unregister and get calls, what
\* get_encoder(T) / get_decoder(T) gives is what an uncached resolution
\* against the current mapping of that side gives, the same coder or the same
\* error; no cache entry, of a composite type either, outlives a mutation of
\* its side that changes what it resolves to.
C3_CacheAgreesWithMapping ==
    /\ IsGet(last.op) =>
           SameOutcome(Uncached(SideOf(last.op), last.reg, last.args[1]),
                       last.err, last.ret)
    /\ \A c \in encoder_cache :
           SameOutcome(Uncached("encoder", c.self, c.type_str), "none", c.value)
    /\ \A c \in decoder_cache :
           SameOutcome(Uncached("decoder", c.self, c.type_str), "none", c.value)

\* unregister_encoder has just dropped the cached array coder and its cached
\* element coder, and the array type does not resolve any more
C3_Witness ==
    /\ last.op = "unregister_encoder"
    /\ last.err = "none"
    /\ last.evicted = 2
    /\ encoder_cache = {}
    /\ Uncached("encoder", last.reg, "uint256[2]").err = "NoMatchingCoder"

\* C4: a successful get_encoder(T) (likewise get_decoder(T)) that follows a
\* successful one on the same registry, with no register* / unregister* call
\* on that registry in between, returns the same value, the identical
\* instance, and performs no find and no from_type_str.
C4_RepeatedGetIsCached ==
    [][\A r \in Regs, t \in TypeStrs :
          /\ (GetEncoder(r, t) /\ last'.err = "none") =>
                 \A h \in hist[r].encoder : h.type_str = t =>
                     last'.ret = h.value /\ last'.finds = 0 /\ last'.constructs = 0
          /\ (GetDecoder(r, t) /\ last'.err = "none") =>
                 \A h \in hist[r].decoder : h.type_str = t =>
                     last'.ret = h.value /\ last'.finds = 0 /\ last'.constructs = 0
      ]_vars

\* C5 as stated: a register_encoder / register_decoder call that fails leaves
\* every cached entry of its side in the cache.
C5_FailedRegisterKeepsCache ==
    [][/\ (last'.op = "register_encoder" /\ last'.err # "none") =>
              encoder_cache \subseteq encoder_cache'
       /\ (last'.op = "register_decoder" /\ last'.err # "none") =>
              decoder_cache \subseteq decoder_cache'
      ]_vars

\* C5 amended: a register_encoder / register_decoder call that fails changes
\* neither mapping and not the other side's cache, but it empties the cache
\* of its own side all the same.
C5_FailedRegisterClearsCache ==
    [][/\ (last'.op = "register_encoder" /\ last'.err # "none") =>
              /\ encoder_cache' = {}
              /\ UNCHANGED <<encoders, decoders, decoder_cache>>
       /\ (last'.op = "register_decoder" /\ last'.err # "none") =>
              /\ decoder_cache' = {}
              /\ UNCHANGED <<encoders, decoders, encoder_cache>>
      ]_vars

\* register_encoder has failed on a duplicate predicate and the entries that
\* were cached before it are gone
C5_Witness ==
    /\ last.op = "register_encoder"
    /\ last.err = "DuplicatePredicate"
    /\ last.evicted > 0
    /\ encoder_cache = {}

\* the predicate that a lookup stands for
PredicateOf(lookup) ==
    IF lookup.type = "str" THEN Equals(lookup.str, 0) ELSE lookup.predicate

\* the entry of a mapping whose predicate equals the given one
EntryOf(m, predicate) == {e \in m.values : PredEq(e.predicate, predicate)}

\* C7: registering a predicate equal to a stored one, the same object or a
\* separately constructed one, raises the duplicate-predicate error and leaves
\* the stored predicate, its value and its label as they were on the encoder
\* and the decoder side, whatever label is passed.
C7_DuplicatePredicateRejected ==
    [][\A r \in Regs :
          LET k     == last'.args[1]
              inEnc == k.type # "int" /\ InValues(encoders[r], PredicateOf(k))
              inDec == k.type # "int" /\ InValues(decoders[r], PredicateOf(k))
          IN  /\ (last'.op = "register_encoder" /\ last'.reg = r /\ inEnc) =>
                     /\ last'.err = "DuplicatePredicate"
                     /\ UNCHANGED <<encoders, decoders>>
              /\ (last'.op = "register_decoder" /\ last'.reg = r /\ inDec) =>
                     /\ last'.err = "DuplicatePredicate"
                     /\ UNCHANGED <<encoders, decoders>>
              /\ (last'.op = "register" /\ last'.reg = r /\ inEnc) =>
                     /\ last'.err = "DuplicatePredicate"
                     /\ UNCHANGED <<encoders, decoders>>
              /\ (last'.op = "register" /\ last'.reg = r /\ inDec) =>
                     /\ decoders'[r] = decoders[r]
                     /\ last'.err # "none"
      ]_vars

\* register(BaseEquals('uint'), ...) with a new object has just been rejected
\* on the default registry, which still holds its own object with the default
\* coders under the label 'uint' on both sides
C7_Witness ==
    /\ last.op = "register"
    /\ last.reg = "registry"
    /\ last.err = "DuplicatePredicate"
    /\ last.args[1] = Callable(BaseEquals("uint", None, 2))
    /\ EntryOf(encoders["registry"], BaseEquals("uint", None, 2)) =
           {[predicate |-> BaseEquals("uint", None, 1),
             value |-> "UnsignedIntegerEncoder"]}
    /\ EntryOf(decoders["registry"], BaseEquals("uint", None, 2)) =
           {[predicate |-> BaseEquals("uint", None, 1),
             value |-> "UnsignedIntegerDecoder"]}
    /\ Is(LabelGet(encoders["registry"], "uint"), BaseEquals("uint", None, 1))
    /\ Is(LabelGet(decoders["registry"], "uint"), BaseEquals("uint", None, 1))

\* the number of predicates of a side that accept type_str
Accepting(side, r, type_str) == Cardinality(Matches(Side(side, r), type_str))

Parses(type_str) == parse(type_str) # ParseError

OneMatchOutcome(side, r, type_str, coder, err, ret) ==
    IF ~IsCoderClass(coder) THEN err = "none" /\ ret = Plain(coder)
    ELSE \/ err = "none" /\ ret.cls = coder /\ ret.type_str = type_str
         \/ err = "ParseError" /\ ~Parses(type_str)
         \/ /\ err # "none"
            /\ item_type(type_str) # None
            /\ err = Uncached(side, r, item_type(type_str)).err

CacheOf(side, enc, dec) == IF side = "encoder" THEN enc ELSE dec

FailedOf(side, r) == IF side = "encoder" THEN failed[r].encoder ELSE failed[r].decoder

\* C9 as stated: a failed get call is not cached and a successful one is; and
\* a get call for a type string that failed before, made right after a
\* successful register or unregister call on that registry that leaves exactly
\* one predicate of that side matching, succeeds with that predicate's coder.
C9_FailureFixedByOneMatch ==
    [][IsGet(last'.op) =>
          LET side  == SideOf(last'.op)
              r     == last'.reg
              t     == last'.args[1]
              ms    == Matches(Side(side, r), t)
              cache == CacheHit(CacheOf(side, encoder_cache', decoder_cache'), r, t)
          IN  /\ last'.err # "none" => cache = {}
              /\ last'.err = "none" =>
                     cache = {[self |-> r, type_str |-> t, value |-> last'.ret]}
              /\ (/\ t \in FailedOf(side, r)
                  /\ ~IsGet(last.op) /\ last.reg = r /\ last.err = "none"
                  /\ Cardinality(ms) = 1) =>
                     /\ last'.err = "none"
                     /\ \A e \in ms :
                            IF IsCoderClass(e.value) THEN last'.ret.cls = e.value
                            ELSE last'.ret = Plain(e.value)
      ]_vars

\* C9 amended: a failed get call is not cached and a successful one is; a get
\* call for a type string that failed before, once exactly one predicate of
\* that side matches, returns that predicate's coder when it is a plain
\* callable, and for a coder class an instance of it unless from_type_str
\* raises (for an array, when its element type still does not resolve).
C9_FailedGetNotCached ==
    [][IsGet(last'.op) =>
          LET side  == SideOf(last'.op)
              r     == last'.reg
              t     == last'.args[1]
              ms    == Matches(Side(side, r), t)
              cache == CacheHit(CacheOf(side, encoder_cache', decoder_cache'), r, t)
          IN  /\ last'.err # "none" => cache = {}
              /\ last'.err = "none" =>
                     cache = {[self |-> r, type_str |-> t, value |-> last'.ret]}
              /\ (t \in FailedOf(side, r) /\ Cardinality(ms) = 1) =>
                     \A e \in ms :
                         OneMatchOutcome(side, r, t, e.value, last'.err, last'.ret)
      ]_vars

\* get_encoder has just succeeded, and cached its result, for a type string
\* for which it raised before
C9_Witness ==
    /\ last.op = "get_encoder"
    /\ last.err = "none"
    /\ last.args[1] \in failed[last.reg].encoder
    /\ Accepting("encoder", last.reg, last.args[1]) = 1
    /\ CacheHit(encoder_cache, last.reg, last.args[1]) # {}

----------------------------------------------------------------------------
(* Further properties of PredicateMapping, checked under SpecMap *)

\* the labelled entries of the mapping: label L is bound to the very object
\* that is the key of an entry of the primary index, as add(p, v, L) leaves it
LabelledEntries(m) ==
    {i \in 1..Len(m.labeled_predicates) :
        \E e \in m.values : Is(e.predicate, m.labeled_predicates[i].predicate)}

\* C11: for every entry stored as add(p, v, L), remove(q) with any predicate q
\* equal to p, the same object or a separately constructed one, and remove(L)
\* give the same resulting mapping: the same primary index and the same label
\* index.
C11_RemovalSymmetry ==
    \A i \in LabelledEntries(mapping) : \A q \in MapPredicates :
        PredEq(q, mapping.labeled_predicates[i].predicate) =>
            remove(mapping, Callable(q)).m =
                remove(mapping, Str(mapping.labeled_predicates[i].label)).m

----------------------------------------------------------------------------
(* Further properties of ABIRegistry, checked under Spec *)

\* the label under which _register_coder files a lookup
LabelOf(lookup, label) == IF lookup.type = "str" THEN lookup.str ELSE label

\* C12: register is not transactional.  When the encoder-side add succeeds and
\* the decoder-side add fails, the decoder's error is raised, the new encoder
\* entry stays in the encoder mapping with its label, and the decoder mapping
\* is unchanged; when the encoder-side add fails, its error is raised and the
\* decoder side is not touched.
C12_RegisterNotTransactional ==
    [][last'.op = "register" =>
          LET r == last'.reg
              k == last'.args[1]
              L == LabelOf(k, last'.args[2])
              e == register_coder(encoders[r], k, "fn", last'.args[2])
              d == register_coder(decoders[r], k, "fn", last'.args[2])
          IN  /\ e.err # "none" =>
                     /\ last'.err = e.err
                     /\ UNCHANGED <<encoders, decoders, decoder_cache>>
              /\ (e.err = "none" /\ d.err # "none") =>
                     /\ last'.err = d.err
                     /\ decoders' = decoders
                     /\ \E c \in Coders :
                            encoders'[r] = register_coder(encoders[r], k, c,
                                                          last'.args[2]).m
                     /\ ~InValues(encoders[r], PredicateOf(k))
                     /\ InValues(encoders'[r], PredicateOf(k))
                     /\ L # None =>
                            /\ InLabels(encoders'[r], L)
                            /\ Is(LabelGet(encoders'[r], L), PredicateOf(k))
      ]_vars

\* register(BaseEquals('uint'), ..., label='uint') has just failed on the
\* decoder side of a registry whose encoder side had lost its 'uint' entry:
\* the encoder side holds the new entry under 'uint', the decoder side the
\* default one
C12_Witness ==
    /\ last.op = "register"
    /\ last.err = "DuplicatePredicate"
    /\ last.args = <<Callable(BaseEquals("uint", None, 2)), "uint">>
    /\ EntryOf(encoders[last.reg], BaseEquals("uint", None, 2)) =
           {[predicate |-> BaseEquals("uint", None, 2), value |-> "fn"]}
    /\ Is(LabelGet(encoders[last.reg], "uint"), BaseEquals("uint", None, 2))
    /\ EntryOf(decoders[last.reg], BaseEquals("uint", None, 2)) =
           {[predicate |-> BaseEquals("uint", None, 1),
             value |-> "UnsignedIntegerDecoder"]}

----------------------------------------------------------------------------
(* Properties of the default registrations, checked under SpecShapes *)

\* the predicates of a mapping that accept type_str
Accepts(m, type_str) == {e.predicate : e \in Matches(m, type_str)}

\* C13: the twelve predicates of the default registry are pairwise mutually
\* exclusive: for every type string, whatever its base, sub and array
\* dimensions, or a tuple, at most one of them accepts it, so a find on the
\* unmodified default mapping never raises the ambiguous-match error; 'bytes'
\* with a sub is accepted by the bytes<M> rule only and 'bytes' without a sub
\* by the bytes rule only.
C13_DefaultPredicatesExclusive ==
    /\ Cardinality(mapping.values) = 12
    /\ \A t \in ShapeStrs :
           /\ Cardinality(Accepts(mapping, t)) <= 1
           /\ \A p \in Accepts(mapping, t), q \in Accepts(mapping, t) : p = q
           /\ (parse(t) # ParseError /\ parse(t).kind = "BasicType"
                  /\ parse(t).base = "bytes" /\ parse(t).arrlist = None) =>
                  Accepts(mapping, t) =
                      IF parse(t).sub # None
                      THEN {BaseEquals("bytes", "True", 1)}
                      ELSE {BaseEquals("bytes", "False", 1)}
    /\ last.op = "find" =>
           /\ last.err # "AmbiguousMatch"
           /\ last.err = "none" <=> Cardinality(Accepts(mapping, last.args[1])) = 1

\* find('bytes32') on the default decoder mapping has just returned the
\* fixed-width decoder, while 'bytes' is accepted by the other rule
C13_Witness ==
    /\ last.op = "find"
    /\ last.args = <<"bytes32">>
    /\ last.ret = "BytesDecoder"
    /\ Accepts(mapping, "bytes32") = {BaseEquals("bytes", "True", 1)}
    /\ Accepts(mapping, "bytes") = {BaseEquals("bytes", "False", 1)}


C15_OneSideOnly ==
    [][/\ last'.op \in {"register_encoder", "unregister_encoder"} =>
              UNCHANGED <<decoders, decoder_cache>>
       /\ last'.op \in {"register_decoder", "unregister_decoder"} =>
              UNCHANGED <<encoders, encoder_cache>>
      ]_vars

\* unregister_encoder has just removed an entry and dropped the cached
\* encoders, and the decoder cached before it is still cached
C15_Witness ==
    /\ last.op = "unregister_encoder"
    /\ last.err = "none"
    /\ last.evicted > 0
    /\ encoder_cache = {}
    /\ \E c \in decoder_cache : c.self = last.reg
    /\ encoders[last.reg] # decoders[last.reg]


\* what remove_by_label(L) is said to do to a mapping in which L is bound:
\* the label and the entry of the predicate it is bound to are gone
EntryRemoved(before, after, L) ==
    /\ after.labeled_predicates = LabelDel(before.labeled_predicates, L)
    /\ after.values = ValuesDel(before.values, LabelGet(before, L))
    /\ Cardinality(after.values) = Cardinality(before.values) - 1

\* C16: unregister(label) is not transactional.  With the label bound on both
\* sides it removes both entries; bound on the encoder side only, it removes
\* the encoder entry and then raises the label-not-found error; bound on the
\* decoder side only, it raises the label-not-found error and removes nothing.
C16_UnregisterNotTransactional ==
    [][(last'.op = "unregister" /\ last'.args[1].type = "str") =>
          LET r     == last'.reg
              L     == last'.args[1].str
              inEnc == InLabels(encoders[r], L)
              inDec == InLabels(decoders[r], L)
          IN  /\ (inEnc /\ inDec) =>
                     /\ last'.err = "none"
                     /\ EntryRemoved(encoders[r], encoders'[r], L)
                     /\ EntryRemoved(decoders[r], decoders'[r], L)
              /\ (inEnc /\ ~inDec) =>
                     /\ last'.err = "LabelNotFound"
                     /\ EntryRemoved(encoders[r], encoders'[r], L)
                     /\ decoders' = decoders
              /\ ~inEnc =>
                     /\ last'.err = "LabelNotFound"
                     /\ UNCHANGED <<encoders, decoders>>
      ]_vars


----------------------------------------------------------------------------
(* remove_by_label, checked under SpecMap *)

\* C17: in every state that add, remove_by_equality, remove_by_label and
\* remove calls lead to, remove_by_label(L) is all-or-nothing: it succeeds and
\* removes the entry bound to L from both indices, or it raises the
\* label-not-found error and changes neither index; it never raises after it
\* has deleted the label.
C17_RemoveByLabelAllOrNothing ==
    [][\A L \in MapLabels \ {None} :
          (RemoveByLabel(L) \/ Remove(Str(L))) =>
              \/ /\ last'.err = "none"
                 /\ InLabels(mapping, L)
                 /\ EntryRemoved(mapping, mapping', L)
              \/ /\ last'.err = "LabelNotFound"
                 /\ ~InLabels(mapping, L)
                 /\ mapping' = mapping
      ]_vars


----------------------------------------------------------------------------
(* The caches of two registries, checked under Spec *)

\* the entries that a cache holds for one registry
EntriesOf(cache, r) == {c \in cache : c.self = r}

\* C18: the resolution caches are per registry instance.  A register* or
\* unregister* call on one registry leaves the cached resolutions of every
\* other registry in place, so that the other registry's next get returns the
\* identical instance without resolving again; and a get call served from the
\* cache returns a value that was cached for its own registry.
C18_CachesPerInstance ==
    [][/\ \A r \in Regs :
              (/\ last'.op \in {"register", "register_encoder", "register_decoder",
                                "unregister", "unregister_encoder",
                                "unregister_decoder"}
               /\ last'.reg # r) =>
                  /\ EntriesOf(encoder_cache', r) = EntriesOf(encoder_cache, r)
                  /\ EntriesOf(decoder_cache', r) = EntriesOf(decoder_cache, r)
       /\ (IsGet(last'.op) /\ last'.err = "none" /\ last'.finds = 0) =>
              \E c \in EntriesOf(CacheOf(SideOf(last'.op), encoder_cache,
                                         decoder_cache), last'.reg) :
                  c.type_str = last'.args[1] /\ c.value = last'.ret
      ]_vars


----------------------------------------------------------------------------
(* Concurrent callers, checked under SpecThreads *)

\* a cached entry that an uncached resolution against the current mapping
\* would not return
Stale(c) ==
    ~SameOutcome(Uncached("encoder", c.self, c.type_str), "none", c.value)

\* a get for the key of entry c that missed the cache and has not returned
InFlight(c) ==
    \E t \in Threads :
        /\ threads.th[t].pc \in {"resolve", "store"}
        /\ threads.th[t].type_str = c.type_str

\* C19: a mutation is two steps, the clearing of the cache and the update of
\* the index, and without a lock a get_encoder of another thread may run
\* between them and cache the pre-mutation resolution, which the cache then
\* still holds when the mutation has completed.  When the callers hold one
\* lock across each whole mutation and each whole get, the encoder cache
\* never holds a coder that an uncached resolution against the mapping would
\* not return.  With or without the lock a cached entry stays until a
\* mutation clears the cache, unless a get for its key that missed is still
\* in flight.
C19_LockPreventsStaleCache ==
    /\ [](threads.locking => \A c \in encoder_cache : ~Stale(c))
    /\ [][\A c \in encoder_cache :
             (/\ ~InFlight(c)
              /\ ~\E t \in Threads : At(t, "clear") /\ threads'.th[t].pc = "update")
             => c \in encoder_cache'
         ]_vars

\* no lock: unregister_encoder('uint') has completed, every thread has
\* returned, and the cache holds for 'uint256' the coder that was resolved
\* between the clearing of the cache and the removal
C19_Witness ==
    /\ ~threads.locking
    /\ \A t \in Threads : At(t, "idle")
    /\ last.op = "unregister_encoder"
    /\ last.err = "none"
    /\ ~InValues(encoders[Shared], BaseEquals("uint", None, 1))
    /\ \E c \in encoder_cache :
           /\ c.type_str = "uint256"
           /\ c.value.cls = "UnsignedIntegerEncoder"
           /\ Stale(c)
           /\ Uncached("encoder", Shared, "uint256").err = "NoMatchingCoder"

=============================================================================
